---------------------------- MODULE Spec2Model ----------------------------
(***************************************************************************)
(* A model of proc_art: the hex palette parser (skia_colors.rs and its     *)
(* copy in bin/noise_tris.rs), the triangle renderer (bin/noise_tris.rs),  *)
(* the flow field Noise2x2 with its tails and walks (bin/noise_flow.rs)    *)
(* and the pixel walker (bin/featherweight.rs).                            *)
(*                                                                         *)
(* Numbers.  An f64/f32 quantity is a fixed-point integer counting units   *)
(* of 1/Q; products and quotients round to the nearest unit.  A quantity   *)
(* that the code holds in an integer type (u32, usize, u8) is an integer.  *)
(*                                                                         *)
(* Strings.  A Rust str is its sequence of UTF-8 bytes.  A byte is a       *)
(* token: an ASCII byte is the one-character string of its character       *)
(* ("LF" and "CR" for the two line-ending bytes), and the two bytes of     *)
(* U+00E9 are "xC3" and "xA9".                                             *)
(***************************************************************************)
EXTENDS Integers, Sequences, FiniteSets, TLC

VARIABLES
  \* ---- the palette parser (skia_colors.rs) ----
  typed,       \* the lines the text was typed as, each a sequence of characters
  text,        \* the &str handed to the parser, as bytes
  call,        \* which function was applied to it: "none" before the call
  result,      \* what the call returned
  \* ---- the triangle renderer (bin/noise_tris.rs) ----
  args,        \* Args: width, height, triangle_size, noise_scale, and the
               \* contents of the palette file (or of DEFAULT_PALETTE)
  height_fn,   \* NoiseData.height: the generator behind the ScalePoint
  tpc,         \* where main is: "load", "setup", "draw", "saved", "panic"
  palette,     \* paint_main's palette: Vec<Color>
  pixmap,      \* whether Pixmap::new has made the canvas
  ti, tj,      \* the grid loops' i and j
  index,       \* the last `height as usize` used to index the palette, -1: none
  drawn,       \* the triangles filled so far, in order
  why,         \* the panic's message, "" while there is none
  \* ---- the flow programs (bin/noise_flow.rs, bin/featherweight.rs) ----
  prog,        \* which main runs: "noise_flow", "featherweight", or "probe",
               \* a caller that builds a Noise2x2 and samples it
  fargs,       \* that program's Args
  flow_noise,  \* noise_flow: the Noise2x2 (pos_scale, normalize, bias,
               \* noise_x, noise_y)
  flow_x,      \* featherweight: the two Perlin generators
  flow_y,
  fpc,         \* where main is
  gi, gj,      \* the tail grid's loop variables
  wn,          \* the walks drawn so far
  start,       \* the start point of the walk or tail in hand
  cur,         \* the cursor: draw_walk's x, featherweight's (fx, fy)
  step_i,      \* the step loop's _i
  vel,         \* the last flow vector: sample's result, featherweight's (vx, vy)
  raw,         \* the two generators' values behind vel
  path,        \* noise_flow: the PathBuilder's segments, each its points
  canvas,      \* what was drawn: stroked paths, or put_pixel's coordinates
  fwhy,        \* the panic's message, "" while there is none
  memo,        \* every sample taken of flow_noise: <<position, value>> pairs
  rng,         \* noise_flow: what the ChaCha8Rng was seeded with, -1 before
  color_noise, \* noise_flow: the Simplex the walks' colors are read from
  color_i,     \* noise_flow: the last walk's index into taken_colors, -1 before
  \* noise.rs and bin/noise_viewer.rs
  vpc,         \* "off", or "run" while the viewer's App runs
  noise_type,  \* Args::noise_type, the selector in use
  first_type,  \* the selector the viewer started with
  n_next,      \* Tab presses handled so far
  n_prev,      \* Shift+Tab presses handled so far
  fell_back,   \* whether a conversion made for a key press took the `_` arm
  seed,        \* RandomSeed
  events,      \* the ResourceUpdatedEvents sent and not yet read
  shown,       \* what the display image was painted from
  from_idx,    \* the test's last argument to NoiseSelector::from
  from_sel     \* and what it returned

parseVars == <<typed, text, call, result>>
trisVars == <<args, height_fn, tpc, palette, pixmap, ti, tj, index, drawn, why>>
flowVars == <<prog, fargs, flow_noise, flow_x, flow_y, fpc, gi, gj, wn, start,
              cur, step_i, vel, raw, path, canvas, fwhy, memo, rng, color_noise,
              color_i>>
viewVars == <<vpc, noise_type, first_type, n_next, n_prev, fell_back, seed, events,
              shown, from_idx, from_sel>>
vars == <<parseVars, trisVars, flowVars, viewVars>>

-----------------------------------------------------------------------------
(* Arithmetic helpers *)

Abs(x) == IF x < 0 THEN -x ELSE x

\* The fixed-point unit: a float v is the integer nearest to v * Q.
Q == 100

\* a / b rounded to the nearest integer, halves away from zero (b > 0)
RoundDiv(a, b) ==
  IF a >= 0 THEN (2 * a + b) \div (2 * b) ELSE -((2 * (-a) + b) \div (2 * b))

\* The product and the quotient of two fixed-point numbers
MulQ(a, b) == RoundDiv(a * b, Q)

DivQ(a, b) == IF b > 0 THEN RoundDiv(a * Q, b) ELSE -RoundDiv(a * Q, -b)

\* floor of a fixed-point number, as an integer
Floor(a) == a \div Q

\* `v as u32` / `v as usize` of a float: toward zero, and 0 below zero
AsUnsigned(a) == IF a < 0 THEN 0 ELSE a \div Q

\* What a noise generator returns: floats in [-1, 1], both ends included
NoiseVals == {-Q, 0, Q}

\* A generator is constant on each unit square of its input plane, and the
\* squares of one colour of the checkerboard share a value.
NoiseCells == {0, 1}

NoiseCell(px, py) == (Floor(px) + Floor(py)) % 2

NoiseFns == [NoiseCells -> NoiseVals]

-----------------------------------------------------------------------------
(* skia_colors.rs: parse_hex_color and parse_hex_palette *)

\* Bounds of the parser's inputs.
MaxLineChars == 6
MaxLines == 2

\* expected_length: 6, and the slices 0..2, 2..4, 4..6
HexColorLen == 6

\* The characters lines are typed from: a digit, a lower- and an upper-case
\* hex letter, the two sign characters and a two-byte character.
LineAlphabet == {"0", "f", "F", "+", "-", "U+00E9"}

Utf8Char(c) == IF c = "U+00E9" THEN <<"xC3", "xA9">> ELSE <<c>>

RECURSIVE Utf8(_)
Utf8(chars) ==
  IF chars = <<>> THEN <<>> ELSE Utf8Char(Head(chars)) \o Utf8(Tail(chars))

\* A byte 0x80..0xBF continues a character; no character starts at it.
IsContinuationByte(b) == b = "xA9"

\* str::is_char_boundary
IsCharBoundary(s, k) ==
  \/ k = 0
  \/ k = Len(s)
  \/ k > 0 /\ k < Len(s) /\ ~IsContinuationByte(s[k + 1])

\* char::to_digit(16) of an ASCII byte: -1 stands for None
HexDigitChars ==
  <<"0", "1", "2", "3", "4", "5", "6", "7", "8", "9",
    "a", "b", "c", "d", "e", "f", "A", "B", "C", "D", "E", "F">>

ToDigit16(b) ==
  IF \E k \in 1..Len(HexDigitChars) : HexDigitChars[k] = b
  THEN LET k == CHOOSE k \in 1..Len(HexDigitChars) : HexDigitChars[k] = b
       IN  IF k <= 16 THEN k - 1 ELSE k - 7
  ELSE -1

Ok(v) == [tag |-> "Ok", val |-> v]

ErrWrongLength(s) ==
  [tag |-> "Err",
   err |-> [kind |-> "WrongColorStringLength",
            input_str |-> s,
            actual_length |-> Len(s),
            expected_length |-> HexColorLen]]

ErrParseInt(k) == [tag |-> "Err", err |-> [kind |-> "ParseIntError", int_kind |-> k]]

\* A panic unwinds out of the call: there is no value.
Panicked(msg) == [tag |-> "Panic", why |-> msg]

RECURSIVE FoldDigits16(_, _)
FoldDigits16(digits, acc) ==
  IF digits = <<>> THEN Ok(acc)
  ELSE IF ToDigit16(Head(digits)) < 0 THEN ErrParseInt("InvalidDigit")
  ELSE IF acc * 16 + ToDigit16(Head(digits)) > 255 THEN ErrParseInt("PosOverflow")
  ELSE FoldDigits16(Tail(digits), acc * 16 + ToDigit16(Head(digits)))

\* u8::from_str_radix(src, 16): a lone sign is an invalid digit, a leading
\* "+" is dropped, and "-" (u8 is unsigned) is left to fail as a digit.
U8FromStrRadix16(src) ==
  IF src = <<>> THEN ErrParseInt("Empty")
  ELSE IF Head(src) \in {"+", "-"} /\ Tail(src) = <<>> THEN ErrParseInt("InvalidDigit")
  ELSE IF Head(src) = "+" THEN FoldDigits16(Tail(src), 0)
  ELSE FoldDigits16(src, 0)

\* &s[a..b]: panics unless both ends are character boundaries
StrSlice(s, a, b) ==
  IF IsCharBoundary(s, a) /\ IsCharBoundary(s, b)
  THEN Ok(SubSeq(s, a + 1, b))
  ELSE Panicked("byte index is not a char boundary")

\* u8::from_str_radix(&s[a..b], 16)
HexPair(s, a, b) ==
  LET sl == StrSlice(s, a, b)
  IN  IF sl.tag = "Ok" THEN U8FromStrRadix16(sl.val) ELSE sl

Rgba8(r, g, b, a) == [red |-> r, green |-> g, blue |-> b, alpha |-> a]

\* The channels with the slices of green and blue exchanged
ParseHexChannelsSwapped(s) ==
  LET r == HexPair(s, 0, 2)
  IN  IF r.tag # "Ok" THEN r
      ELSE LET g == HexPair(s, 4, 6)
           IN  IF g.tag # "Ok" THEN g
               ELSE LET b == HexPair(s, 2, 4)
                    IN  IF b.tag # "Ok" THEN b
                        ELSE Ok(Rgba8(r.val, g.val, b.val, 255))

\* skia_colors.rs 38-41: the three channels, each `?` returning the first Err
ParseHexChannels(s) ==
  LET r == HexPair(s, 0, 2)
  IN  IF r.tag # "Ok" THEN r
      ELSE LET g == HexPair(s, 2, 4)
           IN  IF g.tag # "Ok" THEN g
               ELSE LET b == HexPair(s, 4, 6)
                    IN  IF b.tag # "Ok" THEN b
                        ELSE Ok(Rgba8(r.val, g.val, b.val, 255))

\* parse_hex_color with the length test `<` in place of `!=`
ParseHexColorShortOnly(s) ==
  IF Len(s) < HexColorLen THEN ErrWrongLength(s) ELSE ParseHexChannels(s)

parse_hex_color(s) ==
  IF Len(s) # HexColorLen THEN ErrWrongLength(s) ELSE ParseHexChannels(s)

\* The first index of byte b in s, or 0
RECURSIVE IndexOf(_, _, _)
IndexOf(s, b, k) ==
  IF k > Len(s) THEN 0 ELSE IF s[k] = b THEN k ELSE IndexOf(s, b, k + 1)

\* A line without its "\n" and without the "\r" before that "\n"
StripCR(line) ==
  IF line # <<>> /\ line[Len(line)] = "CR" THEN SubSeq(line, 1, Len(line) - 1) ELSE line

\* str::lines: the pieces ended by "\n" or "\r\n", and a last piece that is
\* not empty
RECURSIVE Lines(_)
Lines(s) ==
  IF s = <<>> THEN <<>>
  ELSE LET k == IndexOf(s, "LF", 1)
       IN  IF k = 0 THEN <<s>>
           ELSE <<StripCR(SubSeq(s, 1, k - 1))>> \o Lines(SubSeq(s, k + 1, Len(s)))

\* collect::<Result<Vec<_>, _>>() over lines.map(parse_hex_color): the first
\* line that is not Ok ends the iteration.
RECURSIVE CollectColors(_, _)
CollectColors(ls, acc) ==
  IF ls = <<>> THEN Ok(acc)
  ELSE LET c == parse_hex_color(Head(ls))
       IN  IF c.tag # "Ok" THEN c ELSE CollectColors(Tail(ls), Append(acc, c.val))

parse_hex_palette(s) == CollectColors(Lines(s), <<>>)

-----------------------------------------------------------------------------
(* The parser's callers: a caller types a text and applies one function. *)

SeqsUpTo(A, n) == UNION {[1..k -> A] : k \in 0..n}

NoResult == [tag |-> "None"]

\* Lines of three digit pairs, as the palette files hold them, and some that
\* are not.
PalettePairs == {<<"0", "0">>, <<"f", "f">>, <<"F", "F">>}

PaletteLines ==
  {p \o q \o r : p \in PalettePairs, q \in PalettePairs, r \in PalettePairs}
    \cup {<<>>, <<"f", "f", "f">>, <<"+", "f", "0", "0", "0", "0">>}

\* skia_colors.rs 54-58: the palette of test_parse_hex_palette
TestPaletteLines ==
  << <<"0", "0", "0", "0", "0", "0">>,
     <<"f", "f", "0", "0", "0", "0">>,
     <<"0", "0", "f", "f", "0", "0">>,
     <<"0", "0", "0", "0", "f", "f">>,
     <<"f", "f", "f", "f", "f", "f">> >>

\* The lines joined by eol, with or without one after the last line
RECURSIVE JoinLines(_, _, _)
JoinLines(ls, eol, trailing) ==
  IF ls = <<>> THEN <<>>
  ELSE IF Len(ls) = 1 THEN Utf8(Head(ls)) \o (IF trailing THEN eol ELSE <<>>)
  ELSE Utf8(Head(ls)) \o eol \o JoinLines(Tail(ls), eol, trailing)

LineEndings == {<<"LF">>, <<"CR", "LF">>}

ParseIdle ==
  /\ typed = <<>>
  /\ text = <<>>
  /\ call = "none"
  /\ result = NoResult

ColorInit ==
  /\ \E cs \in SeqsUpTo(LineAlphabet, MaxLineChars) :
       /\ typed = <<cs>>
       /\ text = Utf8(cs)
  /\ call = "none"
  /\ result = NoResult

PaletteInit ==
  /\ \E ls \in SeqsUpTo(PaletteLines, MaxLines) \cup {TestPaletteLines} :
       \E eol \in LineEndings, trailing \in BOOLEAN :
         /\ typed = ls
         /\ text = JoinLines(ls, eol, trailing)
  /\ call = "none"
  /\ result = NoResult

CallParseHexColor ==
  /\ call = "none"
  /\ call' = "parse_hex_color"
  /\ result' = parse_hex_color(text)
  /\ UNCHANGED <<typed, text, trisVars, flowVars, viewVars>>

CallParseHexPalette ==
  /\ call = "none"
  /\ call' = "parse_hex_palette"
  /\ result' = parse_hex_palette(text)
  /\ UNCHANGED <<typed, text, trisVars, flowVars, viewVars>>

-----------------------------------------------------------------------------
(* bin/noise_tris.rs: main and paint_main *)

\* Bounds of the renderer's inputs.
MaxCanvas == 2
MaxPaletteLines == 2

\* The lines palette files are typed from: two colors and a malformed line
TrisLines ==
  { <<"0", "0", "0", "0", "0", "0">>, <<"f", "f", "F", "F", "f", "f">>,
    <<"f", "f", "f">> }

\* --triangle-size and --noise-scale
TriangleSizes == {Q, 2 * Q}

NoiseScales == {Q}

ArgsSet ==
  { [width |-> w, height |-> h, triangle_size |-> sd, noise_scale |-> ns,
     palette_text |-> JoinLines(ls, <<"LF">>, tr)] :
      w \in 0..MaxCanvas, h \in 0..MaxCanvas, sd \in TriangleSizes,
      ns \in NoiseScales, ls \in SeqsUpTo(TrisLines, MaxPaletteLines),
      tr \in BOOLEAN }

\* Args::load_palette: the file's contents, parsed
load_palette(a) == parse_hex_palette(a.palette_text)

\* (60_f32).to_radians().sin(), in thousandths
Sin60Milli == 866

triangle_side(a) == a.triangle_size

triangle_half_side(a) == RoundDiv(triangle_side(a), 2)

triangle_height(a) == RoundDiv(triangle_side(a) * Sin60Milli, 1000)

triangle_half_height(a) == RoundDiv(triangle_height(a), 2)

\* The margin of the grid's ranges: `+ 3`
GridMargin == 3

\* i_max with a margin of one column
i_maxNarrow(a) == AsUnsigned(DivQ(a.width * Q, triangle_side(a))) + 1

\* (args.width as f32 / triangle_side) as u32 + 3
i_max(a) == AsUnsigned(DivQ(a.width * Q, triangle_side(a))) + GridMargin

j_max(a) == AsUnsigned(DivQ(a.height * Q, triangle_height(a))) + GridMargin

\* The anchor of cell (i, j): rows with even j start half a side to the left
AnchorX(a, i, j) ==
  IF j % 2 = 0 THEN i * triangle_side(a) - triangle_half_side(a)
  ELSE i * triangle_side(a)

AnchorY(a, j) == j * triangle_height(a)

Point(x, y) == [x |-> x, y |-> y]

\* draw_top_triangle's and draw_bottom_triangle's points
TopPoints(a, x, y) ==
  << Point(x, y),
     Point(x + triangle_side(a), y),
     Point(x + triangle_half_side(a), y + triangle_height(a)) >>

\* draw_bottom_triangle's points with a base of one side and a half
BottomPointsWide(a, x, y) ==
  << Point(x, y),
     Point(x + triangle_half_side(a), y + triangle_height(a)),
     Point(x - triangle_side(a), y + triangle_height(a)) >>

BottomPoints(a, x, y) ==
  << Point(x, y),
     Point(x + triangle_half_side(a), y + triangle_height(a)),
     Point(x - triangle_half_side(a), y + triangle_height(a)) >>

\* ScalePoint::new(noise).set_scale(noise_scale).get([x, y])
HeightNoise(fn, a, x, y) ==
  fn[NoiseCell(MulQ(x, a.noise_scale), MulQ(y, a.noise_scale))]

\* `height as usize`, height = (noise + 1.) / 2. * palette.len() as f64
HeightIndex(noise, len) == AsUnsigned(RoundDiv((noise + Q) * len, 2))

TopIndex(fn, a, pal, x, y) ==
  HeightIndex(HeightNoise(fn, a, x + triangle_half_side(a),
                          y + triangle_half_height(a)), Len(pal))

BottomIndex(fn, a, pal, x, y) ==
  HeightIndex(HeightNoise(fn, a, x, y + triangle_half_height(a)), Len(pal))

Triangle(i, j, kind, pts, color) ==
  [i |-> i, j |-> j, kind |-> kind, points |-> pts, color |-> color]

TrisIdle ==
  /\ args = [width |-> 0, height |-> 0, triangle_size |-> Q, noise_scale |-> Q,
             palette_text |-> <<>>]
  /\ height_fn = [c \in NoiseCells |-> 0]
  /\ tpc = "off"
  /\ palette = <<>>
  /\ pixmap = FALSE
  /\ ti = 0
  /\ tj = 0
  /\ index = -1
  /\ drawn = <<>>
  /\ why = ""

\* main after Args::parse
TrisInit ==
  /\ args \in ArgsSet
  /\ height_fn \in NoiseFns
  /\ tpc = "load"
  /\ palette = <<>>
  /\ pixmap = FALSE
  /\ ti = 0
  /\ tj = 0
  /\ index = -1
  /\ drawn = <<>>
  /\ why = ""

\* paint_main 72-76: args.load_palette().expect("could not load palette")
LoadPalette ==
  /\ tpc = "load"
  /\ LET r == load_palette(args)
     IN  IF r.tag = "Ok"
         THEN /\ palette' = r.val
              /\ tpc' = "setup"
              /\ why' = why
         ELSE /\ palette' = palette
              /\ tpc' = "panic"
              /\ why' = IF r.tag = "Err" THEN "could not load palette" ELSE r.why
  /\ UNCHANGED <<args, height_fn, pixmap, ti, tj, index, drawn, parseVars, flowVars,
                 viewVars>>

\* paint_main 78-86: the generator, Pixmap::new(width, height).unwrap() (None
\* for a canvas without pixels) and the loops' ranges
CreatePixmap ==
  /\ tpc = "setup"
  /\ IF args.width = 0 \/ args.height = 0
     THEN /\ tpc' = "panic"
          /\ why' = "unwrap on None"
          /\ pixmap' = pixmap
     ELSE /\ tpc' = "draw"
          /\ why' = why
          /\ pixmap' = TRUE
  /\ ti' = 0
  /\ tj' = 0
  /\ UNCHANGED <<args, height_fn, palette, index, drawn, parseVars, flowVars,
                 viewVars>>

\* paint_main 88-114: one pass of the inner loop's body; palette[..] panics
\* on an index that is not below palette.len()
DrawCell ==
  /\ tpc = "draw"
  /\ ti < i_max(args)
  /\ tj < j_max(args)
  /\ LET x == AnchorX(args, ti, tj)
         y == AnchorY(args, tj)
         top == TopIndex(height_fn, args, palette, x, y)
         bot == BottomIndex(height_fn, args, palette, x, y)
     IN  IF top >= Len(palette)
         THEN /\ index' = top
              /\ drawn' = drawn
              /\ tpc' = "panic"
              /\ why' = "index out of bounds"
              /\ UNCHANGED <<ti, tj>>
         ELSE IF bot >= Len(palette)
         THEN /\ index' = bot
              /\ drawn' = Append(drawn,
                   Triangle(ti, tj, "top", TopPoints(args, x, y), palette[top + 1]))
              /\ tpc' = "panic"
              /\ why' = "index out of bounds"
              /\ UNCHANGED <<ti, tj>>
         ELSE /\ index' = bot
              /\ drawn' = drawn \o
                   << Triangle(ti, tj, "top", TopPoints(args, x, y), palette[top + 1]),
                      Triangle(ti, tj, "bottom", BottomPoints(args, x, y),
                               palette[bot + 1]) >>
              /\ tpc' = tpc
              /\ why' = why
              /\ IF tj + 1 < j_max(args)
                 THEN tj' = tj + 1 /\ ti' = ti
                 ELSE tj' = 0 /\ ti' = ti + 1
  /\ UNCHANGED <<args, height_fn, palette, pixmap, parseVars, flowVars, viewVars>>

\* paint_main 117 and main 57: the loops are over, the pixmap is saved
SavePng ==
  /\ tpc = "draw"
  /\ ti >= i_max(args)
  /\ tpc' = "saved"
  /\ UNCHANGED <<args, height_fn, palette, pixmap, ti, tj, index, drawn, why,
                 parseVars, flowVars, viewVars>>

TrisNext == LoadPalette \/ CreatePixmap \/ DrawCell \/ SavePng

-----------------------------------------------------------------------------
(* bin/noise_flow.rs: Noise2x2 *)

\* Vector2::new and Vector2::zeros
Vec(x, y) == [x |-> x, y |-> y]

Zeros == Vec(0, 0)

VAdd(a, b) == Vec(a.x + b.x, a.y + b.y)

VSub(a, b) == Vec(a.x - b.x, a.y - b.y)

\* v * s for a float s
VMul(v, s) == Vec(MulQ(v.x, s), MulQ(v.y, s))

\* The largest r with r * r <= n, for 0 <= n < 2^31
RECURSIVE ISqrtIter(_, _, _)
ISqrtIter(n, lo, hi) ==
  IF lo >= hi THEN lo
  ELSE LET mid == (lo + hi + 1) \div 2
       IN  IF mid * mid <= n THEN ISqrtIter(n, mid, hi) ELSE ISqrtIter(n, lo, mid - 1)

\* sqrt, to the nearest integer
SqrtNearest(n) ==
  LET r == ISqrtIter(n, 0, 46340) IN IF n - r * r > r THEN r + 1 ELSE r

\* Vector2::norm
Norm(v) == SqrtNearest(v.x * v.x + v.y * v.y)

\* Vector2::normalize_mut: each component over the norm, the norm taken to
\* 1/Q of a unit
NormalizeMut(v) ==
  LET n == SqrtNearest((v.x * Q) * (v.x * Q) + (v.y * Q) * (v.y * Q))
  IN  Vec(RoundDiv(v.x * Q * Q, n), RoundDiv(v.y * Q * Q, n))

\* Noise2x2::new: the two Simplex generators are drawn from the rng
Noise2x2New(nx, ny) ==
  [pos_scale |-> Q, normalize |-> FALSE, bias |-> Zeros, noise_x |-> nx, noise_y |-> ny]

\* sample 83-87: the two generators at pos / pos_scale
RawAt(f, pos) ==
  LET px == DivQ(pos.x, f.pos_scale)
      py == DivQ(pos.y, f.pos_scale)
  IN  Vec(f.noise_x[NoiseCell(px, py)], f.noise_y[NoiseCell(px, py)])

\* sample with the bias added to the normalized vector
SampleBiasLast(f, pos) ==
  LET out == RawAt(f, pos)
  IN  IF f.normalize /\ Norm(out) > 0 THEN VAdd(NormalizeMut(out), f.bias)
      ELSE VAdd(out, f.bias)

\* sample with the normalization left out
SampleUnnormalized(f, pos) == VAdd(RawAt(f, pos), f.bias)

\* Noise2x2::sample
Sample(f, pos) ==
  LET out == VAdd(RawAt(f, pos), f.bias)
  IN  IF f.normalize /\ Norm(out) > 0 THEN NormalizeMut(out) ELSE out

-----------------------------------------------------------------------------
(* A caller of Noise2x2: it builds a field, sets its public fields and
   samples it. *)

\* Bounds of the flow programs' inputs.
MaxSteps == 2
MaxWalks == 1

ProbeVals == {-Q, 0, 60}

ProbeBiases == {Zeros, Vec(40, 40), Vec(40, 30)}

ProbeScales == {Q, 32 * Q}

ProbePositions == {Vec(0, 0), Vec(32 * Q, 0), Vec(50, 150)}

NoVec == Vec(0, 0)

FlowIdle ==
  /\ prog = "off"
  /\ fargs = [width |-> 0, height |-> 0]
  /\ flow_noise = Noise2x2New([c \in NoiseCells |-> 0], [c \in NoiseCells |-> 0])
  /\ flow_x = [c \in NoiseCells |-> 0]
  /\ flow_y = [c \in NoiseCells |-> 0]
  /\ fpc = "off"
  /\ gi = 0
  /\ gj = 0
  /\ wn = 0
  /\ start = NoVec
  /\ cur = NoVec
  /\ step_i = 0
  /\ vel = NoVec
  /\ raw = NoVec
  /\ path = <<>>
  /\ canvas = <<>>
  /\ fwhy = ""
  /\ memo = {}
  /\ rng = -1
  /\ color_noise = [c \in NoiseCells |-> 0]
  /\ color_i = -1

ProbeInit ==
  /\ prog = "probe"
  /\ fargs = [width |-> 0, height |-> 0]
  /\ \E nx \in [NoiseCells -> ProbeVals], ny \in [NoiseCells -> ProbeVals],
        ps \in ProbeScales, nz \in BOOLEAN, b \in ProbeBiases :
       flow_noise = [Noise2x2New(nx, ny) EXCEPT
                       !.pos_scale = ps, !.normalize = nz, !.bias = b]
  /\ flow_x = [c \in NoiseCells |-> 0]
  /\ flow_y = [c \in NoiseCells |-> 0]
  /\ fpc = "built"
  /\ gi = 0
  /\ gj = 0
  /\ wn = 0
  /\ start = NoVec
  /\ cur = NoVec
  /\ step_i = 0
  /\ vel = NoVec
  /\ raw = NoVec
  /\ path = <<>>
  /\ canvas = <<>>
  /\ fwhy = ""
  /\ memo = {}
  /\ rng = -1
  /\ color_noise = [c \in NoiseCells |-> 0]
  /\ color_i = -1

\* flow_noise.sample(&pos)
ProbeSample ==
  /\ prog = "probe"
  /\ \E pos \in ProbePositions :
       /\ cur' = pos
       /\ raw' = RawAt(flow_noise, pos)
       /\ vel' = Sample(flow_noise, pos)
       /\ memo' = memo \cup {<<pos, Sample(flow_noise, pos)>>}
  /\ fpc' = "sampled"
  /\ UNCHANGED <<rng, color_noise, color_i, prog, fargs, flow_noise, flow_x, flow_y, gi, gj, wn, start, step_i,
                 path, canvas, fwhy, parseVars, trisVars, viewVars>>

-----------------------------------------------------------------------------
(* bin/noise_flow.rs: main *)

\* What the Simplex generators of the flow return.  With main's bias the
\* sums are 0 or 0.45 across and 0 or 0.6 down, so that each normalized
\* vector is exact in units of 1/Q.
SimplexValsX == {-40, 5}

SimplexValsY == {-40, 20}

\* flow_noise.bias = Vector2::new(0.4, 0.4)
MainBias == Vec(40, 40)

\* let stride: f64 = 32.; let tail_len: f64 = 16.;
TailStride == 32

TailLen == 16

FlowSizes == {<<0, 2>>, <<2, 2>>, <<96, 64>>}

FlowScales == {32 * Q}

StepSizes == {0, 4 * Q}

\* Option<u64>
None == [some |-> FALSE, val |-> 0]

Some(n) == [some |-> TRUE, val |-> n]

\* --seed: none given, or a u64
FlowSeeds == {None, Some(6), Some(9)}

\* --color-scale, at its default
ColorScales == {10 * Q}

\* --color-range: the default 48, its opposite and a range under 10
ColorRanges == {-48 * Q, 5 * Q, 48 * Q}

FlowArgs(sz, sd, sc, tails, walks, n, steps, step, cs, cr) ==
  [width |-> sz[1], height |-> sz[2], seed |-> sd, scale |-> sc,
   draw_flow_tails |-> tails,
   draw_flow_walks |-> walks, flow_walk_n |-> n, flow_walk_steps |-> steps,
   flow_walk_step_size |-> step,
   color_scale |-> cs, color_range |-> cr]

\* The walk options matter only with --draw-flow-walks
FlowArgsSet ==
  {FlowArgs(sz, sd, sc, tails, TRUE, n, steps, step, cs, cr) :
     sz \in FlowSizes, sd \in FlowSeeds, sc \in FlowScales, tails \in BOOLEAN,
     n \in 1..MaxWalks, steps \in 0..MaxSteps, step \in StepSizes,
     cs \in ColorScales, cr \in ColorRanges}
  \cup
  {FlowArgs(sz, sd, sc, tails, FALSE, 1, 1, 4 * Q, 10 * Q, 48 * Q) :
     sz \in FlowSizes, sd \in FlowSeeds, sc \in FlowScales, tails \in BOOLEAN}

\* Uniform::new(0., n as f64): from 0 up to, and not, n
StartCoords(n) == {0, n * Q - 1}

NoiseFlowInit ==
  /\ prog = "noise_flow"
  /\ fargs \in FlowArgsSet
  /\ flow_noise = Noise2x2New([c \in NoiseCells |-> 0], [c \in NoiseCells |-> 0])
  /\ flow_x = [c \in NoiseCells |-> 0]
  /\ flow_y = [c \in NoiseCells |-> 0]
  /\ fpc = "main"
  /\ gi = 0
  /\ gj = 0
  /\ wn = 0
  /\ start = NoVec
  /\ cur = NoVec
  /\ step_i = 0
  /\ vel = NoVec
  /\ raw = NoVec
  /\ path = <<>>
  /\ canvas = <<>>
  /\ fwhy = ""
  /\ memo = {}
  /\ rng = -1
  /\ color_noise = [c \in NoiseCells |-> 0]
  /\ color_i = -1

\* The seeds a ChaCha8Rng starts from
RngSeeds == 0..15

\* The smaller and the larger of a generator's two values
Lower(vals) == CHOOSE v \in vals : \A w \in vals : v <= w

Upper(vals) == CHOOSE v \in vals : \A w \in vals : v >= w

\* Simplex::new(seed): the seed fixes the generator's value on each cell
SimplexNew(vals, sd) ==
  [c \in NoiseCells |-> IF (sd \div (2 ^ c)) % 2 = 0 THEN Lower(vals) ELSE Upper(vals)]

\* The n-th u32 that rng.gen() returns from a ChaCha8Rng started from sd
RngGen(sd, n) ==
  IF n = 1 THEN sd \div 4 ELSE IF n = 2 THEN sd % 4 ELSE (sd \div 2) % 4

\* main 104-107 with the rng always seeded from entropy
SeedRngFromEntropy(seed_arg, entropy) == entropy

\* main 104-107: seed_from_u64(n) for --seed n, from_entropy() without
SeedRng(seed_arg, entropy) == IF seed_arg.some THEN seed_arg.val ELSE entropy

\* main 163: with --draw-flow-walks the gradient and the color noise are
\* made before the walks
WalksEntry == IF fargs.draw_flow_walks THEN "colors" ELSE "walks"

\* main 97-114: the pixmap (Pixmap::new is None for a canvas without
\* pixels), the rng and the flow noise
FlowSetup ==
  /\ prog = "noise_flow"
  /\ fpc = "main"
  /\ IF fargs.width = 0 \/ fargs.height = 0
     THEN /\ fpc' = "panic"
          /\ fwhy' = "unwrap on None, at Pixmap::new"
          /\ UNCHANGED <<flow_noise, gi, gj, rng>>
     ELSE /\ \E entropy \in RngSeeds :
               LET sd == SeedRng(fargs.seed, entropy)
                   nx == SimplexNew(SimplexValsX, RngGen(sd, 1))
                   ny == SimplexNew(SimplexValsY, RngGen(sd, 2))
               IN  /\ rng' = sd
                   /\ flow_noise' = [Noise2x2New(nx, ny) EXCEPT
                                        !.pos_scale = fargs.scale, !.normalize = TRUE,
                                        !.bias = MainBias]
          /\ fpc' = IF fargs.draw_flow_tails THEN "tails" ELSE WalksEntry
          /\ fwhy' = fwhy
          /\ gi' = 1
          /\ gj' = 1
  /\ UNCHANGED <<color_noise, color_i, prog, memo, fargs, flow_x, flow_y, wn, start, cur, step_i, vel, raw, path,
                 canvas, parseVars, trisVars, viewVars>>

\* draw_tail's assertions with the third one asking for a tail of exactly
\* tail_len
TailAssertionExactLength(pos, dst) ==
  IF pos = Zeros THEN "assertion failed: pos != Vector2::zeros()"
  ELSE IF dst = Zeros THEN "assertion failed: dst != Vector2::zeros()"
  ELSE IF Abs(Norm(VSub(pos, dst)) - TailLen * Q) * 1000 > Q
  THEN "assertion failed: (pos - dst).norm() - tail_len <= 0.001"
  ELSE ""

\* draw_tail's three assertions, in order: the first that fails, or ""
TailAssertion(pos, dst) ==
  IF pos = Zeros THEN "assertion failed: pos != Vector2::zeros()"
  ELSE IF dst = Zeros THEN "assertion failed: dst != Vector2::zeros()"
  ELSE IF (Norm(VSub(pos, dst)) - TailLen * Q) * 1000 > Q
  THEN "assertion failed: (pos - dst).norm() - tail_len <= 0.001"
  ELSE ""

\* PathBuilder::finish: None for a builder that holds no segment after its
\* move_to
PathFinishes(segments) == segments # <<>>

\* main 152-158 with draw_tail 133-150: one tail of the grid
DrawTail ==
  /\ prog = "noise_flow"
  /\ fpc = "tails"
  /\ gi < fargs.width \div TailStride
  /\ gj < fargs.height \div TailStride
  /\ LET pos == Vec(gi * TailStride * Q, gj * TailStride * Q)
         dir == Sample(flow_noise, pos)
         dst == VAdd(pos, Vec(dir.x * TailLen, dir.y * TailLen))
         failed == TailAssertion(pos, dst)
     IN  /\ start' = pos
         /\ cur' = dst
         /\ raw' = RawAt(flow_noise, pos)
         /\ vel' = dir
         /\ memo' = memo \cup {<<pos, dir>>}
         /\ IF failed # ""
            THEN /\ fpc' = "panic"
                 /\ fwhy' = failed
                 /\ UNCHANGED <<canvas, gi, gj>>
            ELSE IF ~PathFinishes(<< <<dst>> >>)
            THEN /\ fpc' = "panic"
                 /\ fwhy' = "unwrap on None, at draw_tail"
                 /\ UNCHANGED <<canvas, gi, gj>>
            ELSE /\ canvas' = Append(canvas,
                      [kind |-> "tail", from |-> pos, segments |-> << <<dst>> >>])
                 /\ UNCHANGED <<fpc, fwhy>>
                 /\ IF gj + 1 < fargs.height \div TailStride
                    THEN gj' = gj + 1 /\ gi' = gi
                    ELSE gj' = 1 /\ gi' = gi + 1
  /\ UNCHANGED <<rng, color_noise, color_i, prog, fargs, flow_noise, flow_x, flow_y, wn, step_i, path,
                 parseVars, trisVars, viewVars>>

\* main 152-159: the grid is done
EndTails ==
  /\ prog = "noise_flow"
  /\ fpc = "tails"
  /\ gi >= fargs.width \div TailStride \/ gj >= fargs.height \div TailStride
  /\ fpc' = WalksEntry
  /\ UNCHANGED <<rng, color_noise, color_i, prog, memo, fargs, flow_noise, flow_x, flow_y, gi, gj, wn, start, cur,
                 step_i, vel, raw, path, canvas, fwhy, parseVars, trisVars,
                 viewVars>>

\* What the color noise returns
ColorVals == {-Q, Q}

\* main 174: gradient.take(10)
TakenColorsLen == 10

\* main 168-175: the ten colors and the color noise, from the rng's third u32
WalkSetup ==
  /\ prog = "noise_flow"
  /\ fpc = "colors"
  /\ color_noise' = SimplexNew(ColorVals, RngGen(rng, 3))
  /\ fpc' = "walks"
  /\ UNCHANGED <<rng, color_i, prog, memo, fargs, flow_noise, flow_x, flow_y, gi, gj,
                 wn, start, cur, step_i, vel, raw, path, canvas, fwhy, parseVars,
                 trisVars, viewVars>>

\* usize::clamp
Clamp(v, lo, hi) == IF v < lo THEN lo ELSE IF v > hi THEN hi ELSE v

\* main 217-219: the color noise at p, times color_range
ColorSample(p) ==
  LET color_scale == MulQ(fargs.scale, fargs.color_scale)
  IN  MulQ(color_noise[NoiseCell(DivQ(p.x, color_scale), DivQ(p.y, color_scale))],
           fargs.color_range)

\* The index without its clamp
ColorIndexUnclamped(p) == AsUnsigned(ColorSample(p))

\* main 219-221: (.. as usize).clamp(0, 9)
ColorIndex(p) == Clamp(AsUnsigned(ColorSample(p)), 0, 9)

\* main 215-228 and draw_walk 186-189: a start point is drawn, its color is
\* looked up in taken_colors, the path begins there
StartWalk ==
  /\ prog = "noise_flow"
  /\ fpc = "walks"
  /\ fargs.draw_flow_walks
  /\ wn < fargs.flow_walk_n
  /\ \E px \in StartCoords(fargs.width), py \in StartCoords(fargs.height) :
       /\ color_i' = ColorIndex(Vec(px, py))
       /\ IF ColorIndex(Vec(px, py)) >= TakenColorsLen
          THEN /\ fpc' = "panic"
               /\ fwhy' = "index out of bounds, at taken_colors"
               /\ UNCHANGED <<start, cur, step_i, path>>
          ELSE /\ start' = Vec(px, py)
               /\ cur' = Vec(px, py)
               /\ step_i' = 0
               /\ path' = <<>>
               /\ fpc' = "walking"
               /\ fwhy' = fwhy
  /\ UNCHANGED <<rng, color_noise, prog, memo, fargs, flow_noise, flow_x, flow_y, gi,
                 gj, wn, vel, raw, canvas, parseVars, trisVars, viewVars>>

\* draw_walk 190-206: one pass of the loop, three samples and a cubic
WalkStep ==
  /\ prog = "noise_flow"
  /\ fpc = "walking"
  /\ step_i < fargs.flow_walk_steps
  /\ LET step == fargs.flow_walk_step_size
         x2 == VAdd(cur, VMul(Sample(flow_noise, cur), step))
         x3 == VAdd(x2, VMul(Sample(flow_noise, x2), step))
         x4 == VAdd(x3, VMul(Sample(flow_noise, x3), step))
     IN  /\ path' = Append(path, <<x2, x3, x4>>)
         /\ cur' = x4
         /\ raw' = RawAt(flow_noise, x3)
         /\ vel' = Sample(flow_noise, x3)
         /\ memo' = memo \cup {<<cur, Sample(flow_noise, cur)>>,
                               <<x2, Sample(flow_noise, x2)>>,
                               <<x3, Sample(flow_noise, x3)>>}
  /\ step_i' = step_i + 1
  /\ UNCHANGED <<rng, color_noise, color_i, prog, fargs, flow_noise, flow_x, flow_y, fpc, gi, gj, wn, start,
                 canvas, fwhy, parseVars, trisVars, viewVars>>

\* draw_walk 207-209: pb.finish().unwrap() and the stroke
FinishWalk ==
  /\ prog = "noise_flow"
  /\ fpc = "walking"
  /\ step_i >= fargs.flow_walk_steps
  /\ IF PathFinishes(path)
     THEN /\ canvas' = Append(canvas,
               [kind |-> "walk", from |-> start, segments |-> path])
          /\ wn' = wn + 1
          /\ fpc' = "walks"
          /\ fwhy' = fwhy
     ELSE /\ fpc' = "panic"
          /\ fwhy' = "unwrap on None, at draw_walk"
          /\ UNCHANGED <<canvas, wn>>
  /\ UNCHANGED <<rng, color_noise, color_i, prog, memo, fargs, flow_noise, flow_x, flow_y, gi, gj, start, cur, step_i,
                 vel, raw, path, parseVars, trisVars, viewVars>>

\* main 233: pixmap.save_png
SaveFlow ==
  /\ prog = "noise_flow"
  /\ fpc = "walks"
  /\ ~fargs.draw_flow_walks \/ wn >= fargs.flow_walk_n
  /\ fpc' = "saved"
  /\ UNCHANGED <<rng, color_noise, color_i, prog, memo, fargs, flow_noise, flow_x, flow_y, gi, gj, wn, start, cur,
                 step_i, vel, raw, path, canvas, fwhy, parseVars, trisVars,
                 viewVars>>

NoiseFlowNext ==
  \/ FlowSetup \/ DrawTail \/ EndTails \/ WalkSetup
  \/ StartWalk \/ WalkStep \/ FinishWalk \/ SaveFlow

-----------------------------------------------------------------------------
(* bin/featherweight.rs: main *)

\* What the two Perlin generators return
PerlinValsX == {-60, 0, 60}

PerlinValsY == {-80, 0, 80}

FwSizes == {2}

FwScales == {2 * Q}

TailFreqs == {1, 3}

FwArgs(size, sc, tails, freq, tlen, walks, n, len, norm) ==
  [size |-> size, scale |-> sc, draw_flow_tails |-> tails, flow_tail_freq |-> freq,
   flow_tail_length |-> tlen, draw_flow_walks |-> walks, flow_walk_freq |-> n,
   flow_walk_length |-> len, flow_walk_norm |-> norm]

\* The tail options matter only with --draw-flow-tails, the walk options
\* only with draw_flow_walks
FwArgsSet ==
  {FwArgs(size, sc, FALSE, 1, 1, TRUE, n, len, norm) :
     size \in FwSizes, sc \in FwScales, n \in 1..MaxWalks, len \in 0..MaxSteps,
     norm \in BOOLEAN}
  \cup
  {FwArgs(size, sc, TRUE, freq, tlen, walks, 1, 1, FALSE) :
     size \in FwSizes, sc \in FwScales, freq \in TailFreqs, tlen \in 0..MaxSteps,
     walks \in BOOLEAN}

FeatherweightInit ==
  /\ prog = "featherweight"
  /\ fargs \in FwArgsSet
  /\ flow_noise = Noise2x2New([c \in NoiseCells |-> 0], [c \in NoiseCells |-> 0])
  /\ flow_x = [c \in NoiseCells |-> 0]
  /\ flow_y = [c \in NoiseCells |-> 0]
  /\ fpc = "main"
  /\ gi = 0
  /\ gj = 0
  /\ wn = 0
  /\ start = NoVec
  /\ cur = NoVec
  /\ step_i = 0
  /\ vel = NoVec
  /\ raw = NoVec
  /\ path = <<>>
  /\ canvas = <<>>
  /\ fwhy = ""
  /\ memo = {}
  /\ rng = -1
  /\ color_noise = [c \in NoiseCells |-> 0]
  /\ color_i = -1

\* main 94-98 and 129-133: the two generators at (fx, fy) / size * scale
FlowAt(p) ==
  LET nx == MulQ(DivQ(p.x, fargs.size * Q), fargs.scale)
      ny == MulQ(DivQ(p.y, fargs.size * Q), fargs.scale)
  IN  Vec(flow_x[NoiseCell(nx, ny)], flow_y[NoiseCell(nx, ny)])

\* main 135-141: the optional normalization of the walk's velocity
WalkNorm(v) ==
  LET norm == Norm(v)
  IN  IF norm > 0 THEN Vec(DivQ(v.x, norm), DivQ(v.y, norm)) ELSE v

\* The test without its last disjunct
LeftImageNoBottom(p) == p.x < 0 \/ p.x < 0 \/ p.x >= fargs.size * Q

\* main 103 and 123: the test that ends a tail or a walk
LeftImage(p) ==
  p.x < 0 \/ p.x < 0 \/ p.x >= fargs.size * Q \/ p.y >= fargs.size * Q

\* RgbImage::put_pixel panics outside the buffer
PutPixelFails(p) ==
  AsUnsigned(p.x) >= fargs.size \/ AsUnsigned(p.y) >= fargs.size

Pixel(p, kind) == [kind |-> kind, x |-> AsUnsigned(p.x), y |-> AsUnsigned(p.y)]

\* main 86: size / flow_tail_freq
FwStride == fargs.size \div fargs.flow_tail_freq

\* The tail grid's next (x, y), x past the image when the grid is done
NextTail ==
  IF gj + FwStride < fargs.size THEN <<gi, gj + FwStride>> ELSE <<gi + FwStride, 0>>

\* main 58-67 and 85-88: the image, the rng, the two generators; step_by
\* panics on a stride of 0
FwSetup ==
  /\ prog = "featherweight"
  /\ fpc = "main"
  /\ \E fx \in [NoiseCells -> PerlinValsX], fy \in [NoiseCells -> PerlinValsY] :
       /\ flow_x' = fx
       /\ flow_y' = fy
  /\ IF ~fargs.draw_flow_tails
     THEN fpc' = "walks" /\ fwhy' = fwhy
     ELSE IF FwStride = 0
     THEN fpc' = "panic" /\ fwhy' = "assertion failed: step != 0"
     ELSE fpc' = "tails" /\ fwhy' = fwhy
  /\ gi' = 0
  /\ gj' = 0
  /\ UNCHANGED <<rng, color_noise, color_i, prog, memo, fargs, flow_noise, wn, start, cur, step_i, vel, raw, path,
                 canvas, parseVars, trisVars, viewVars>>

\* main 88-101: a tail begins at (x, y) with the flow vector there
FwTailStart ==
  /\ prog = "featherweight"
  /\ fpc = "tails"
  /\ gi < fargs.size
  /\ start' = Vec(gi * Q, gj * Q)
  /\ cur' = Vec(gi * Q, gj * Q)
  /\ raw' = FlowAt(Vec(gi * Q, gj * Q))
  /\ vel' = FlowAt(Vec(gi * Q, gj * Q))
  /\ step_i' = 0
  /\ fpc' = "tail"
  /\ UNCHANGED <<rng, color_noise, color_i, prog, memo, fargs, flow_noise, flow_x, flow_y, gi, gj, wn, path, canvas,
                 fwhy, parseVars, trisVars, viewVars>>

\* main 102-109: one pass of the tail's loop that does not break
FwTailStep ==
  /\ prog = "featherweight"
  /\ fpc = "tail"
  /\ step_i < fargs.flow_tail_length
  /\ ~LeftImage(cur)
  /\ IF PutPixelFails(cur)
     THEN /\ fpc' = "panic"
          /\ fwhy' = "Image index out of bounds"
          /\ UNCHANGED <<canvas, cur, step_i>>
     ELSE /\ canvas' = Append(canvas, Pixel(cur, "tail"))
          /\ cur' = VAdd(cur, vel)
          /\ step_i' = step_i + 1
          /\ UNCHANGED <<fpc, fwhy>>
  /\ UNCHANGED <<rng, color_noise, color_i, prog, memo, fargs, flow_noise, flow_x, flow_y, gi, gj, wn, start, vel,
                 raw, path, parseVars, trisVars, viewVars>>

\* main 102-105: the tail's loop ends, by its count or by the break
FwTailEnd ==
  /\ prog = "featherweight"
  /\ fpc = "tail"
  /\ step_i >= fargs.flow_tail_length \/ LeftImage(cur)
  /\ gi' = NextTail[1]
  /\ gj' = NextTail[2]
  /\ fpc' = IF NextTail[1] < fargs.size THEN "tails" ELSE "walks"
  /\ UNCHANGED <<rng, color_noise, color_i, prog, memo, fargs, flow_noise, flow_x, flow_y, wn, start, cur, step_i,
                 vel, raw, path, canvas, fwhy, parseVars, trisVars, viewVars>>

\* main 118-121: a walk begins at a point drawn from [0, size)
FwWalkStart ==
  /\ prog = "featherweight"
  /\ fpc = "walks"
  /\ fargs.draw_flow_walks
  /\ wn < fargs.flow_walk_freq
  /\ \E px \in StartCoords(fargs.size), py \in StartCoords(fargs.size) :
       /\ start' = Vec(px, py)
       /\ cur' = Vec(px, py)
  /\ step_i' = 0
  /\ fpc' = "walk"
  /\ UNCHANGED <<rng, color_noise, color_i, prog, memo, fargs, flow_noise, flow_x, flow_y, gi, gj, wn, vel, raw,
                 path, canvas, fwhy, parseVars, trisVars, viewVars>>

\* main 122-144: one pass of the walk's loop that does not break
FwWalkStep ==
  /\ prog = "featherweight"
  /\ fpc = "walk"
  /\ step_i < fargs.flow_walk_length
  /\ ~LeftImage(cur)
  /\ IF PutPixelFails(cur)
     THEN /\ fpc' = "panic"
          /\ fwhy' = "Image index out of bounds"
          /\ UNCHANGED <<canvas, cur, step_i, raw, vel>>
     ELSE /\ canvas' = Append(canvas, Pixel(cur, "walk"))
          /\ raw' = FlowAt(cur)
          /\ vel' = IF fargs.flow_walk_norm THEN WalkNorm(FlowAt(cur)) ELSE FlowAt(cur)
          /\ cur' = VAdd(cur, vel')
          /\ step_i' = step_i + 1
          /\ UNCHANGED <<fpc, fwhy>>
  /\ UNCHANGED <<rng, color_noise, color_i, prog, memo, fargs, flow_noise, flow_x, flow_y, gi, gj, wn, start, path,
                 parseVars, trisVars, viewVars>>

\* main 122-125: the walk's loop ends, by its count or by the break
FwWalkEnd ==
  /\ prog = "featherweight"
  /\ fpc = "walk"
  /\ step_i >= fargs.flow_walk_length \/ LeftImage(cur)
  /\ wn' = wn + 1
  /\ fpc' = "walks"
  /\ UNCHANGED <<rng, color_noise, color_i, prog, memo, fargs, flow_noise, flow_x, flow_y, gi, gj, start, cur,
                 step_i, vel, raw, path, canvas, fwhy, parseVars, trisVars,
                 viewVars>>

\* main 149: img.save
FwSave ==
  /\ prog = "featherweight"
  /\ fpc = "walks"
  /\ ~fargs.draw_flow_walks \/ wn >= fargs.flow_walk_freq
  /\ fpc' = "saved"
  /\ UNCHANGED <<rng, color_noise, color_i, prog, memo, fargs, flow_noise, flow_x, flow_y, gi, gj, wn, start, cur,
                 step_i, vel, raw, path, canvas, fwhy, parseVars, trisVars,
                 viewVars>>

FeatherweightNext ==
  \/ FwSetup
  \/ FwTailStart
  \/ FwTailStep
  \/ FwTailEnd
  \/ FwWalkStart
  \/ FwWalkStep
  \/ FwWalkEnd
  \/ FwSave

-----------------------------------------------------------------------------
(* noise.rs: NoiseSelector *)

\* pub const NOISE_SELECTORS_LEN: isize = 3
NOISE_SELECTORS_LEN == 3

\* enum NoiseSelector, in the order of its declaration
NoiseSelectors == <<"Simplex", "Perlin", "FbmPerlin">>

NoiseSelector == {NoiseSelectors[i] : i \in 1..Len(NoiseSelectors)}

\* `selector as isize`: the variant's place in the declaration, from 0
AsIsize(sel) == CHOOSE i \in 0..(Len(NoiseSelectors) - 1) : NoiseSelectors[i + 1] = sel

\* impl Default for NoiseSelector
DefaultSelector == "Perlin"

\* From<isize> with the arms for 1 and 2 exchanged
FromIsizeSwapped(idx) ==
  IF idx = 0 THEN "Simplex"
  ELSE IF idx = 1 THEN "FbmPerlin"
  ELSE IF idx = 2 THEN "Perlin"
  ELSE DefaultSelector

\* impl From<isize> for NoiseSelector
FromIsize(idx) ==
  IF idx = 0 THEN "Simplex"
  ELSE IF idx = 1 THEN "Perlin"
  ELSE IF idx = 2 THEN "FbmPerlin"
  ELSE DefaultSelector

\* Whether from(idx) takes the `_` arm
TakesDefaultArm(idx) == idx \notin {0, 1, 2}

\* Rust's a % b on isize: the remainder has the sign of a
Rem(a, b) == IF a >= 0 THEN a % b ELSE -((-a) % b)

\* The index get_next converts
NextIdx(sel) == Rem(AsIsize(sel) + 1, NOISE_SELECTORS_LEN)

\* The index get_prev converts
PrevIdx(sel) == Rem(AsIsize(sel) + NOISE_SELECTORS_LEN - 1, NOISE_SELECTORS_LEN)

\* NoiseSelector::get_next
get_next(sel) == FromIsize(NextIdx(sel))

\* get_prev without the `+ NOISE_SELECTORS_LEN`
GetPrevNoWrap(sel) == FromIsize(Rem(AsIsize(sel) - 1, NOISE_SELECTORS_LEN))

\* NoiseSelector::get_prev
get_prev(sel) == FromIsize(PrevIdx(sel))

-----------------------------------------------------------------------------
(* bin/noise_viewer.rs: handle_input and update_display, and noise.rs's
   test of the conversion *)

\* Bounds of the viewer's run.
MaxPresses == 3
MaxEvents == 2
MaxIdx == 3

\* What thread_rng().gen() and --seed give
Seeds == {0, 1}

\* The arguments of NoiseSelector::from: around the range, and the test's 255
FromArgs == (-MaxIdx..MaxIdx) \cup {255}

NoSelector == "none"

ViewIdle ==
  /\ vpc = "off"
  /\ noise_type = DefaultSelector
  /\ first_type = DefaultSelector
  /\ n_next = 0
  /\ n_prev = 0
  /\ fell_back = FALSE
  /\ seed = 0
  /\ events = <<>>
  /\ shown = [from |-> "circle flag"]
  /\ from_idx = 0
  /\ from_sel = NoSelector

\* main 92-106 and bevy_setup: the arguments, the seed, the starter image
ViewerInit ==
  /\ vpc = "run"
  /\ noise_type \in NoiseSelector
  /\ first_type = noise_type
  /\ n_next = 0
  /\ n_prev = 0
  /\ fell_back = FALSE
  /\ seed \in Seeds
  /\ events = <<>>
  /\ shown = [from |-> "circle flag"]
  /\ from_idx = 0
  /\ from_sel = NoSelector

\* The events handle_input sends for the keys of one frame
SentEvents(space, tab) ==
  (IF space THEN <<"RandomSeed">> ELSE <<>>) \o (IF tab THEN <<"Args">> ELSE <<>>)

\* handle_input, for one frame's keys: Space just pressed, Tab just
\* pressed, a Shift key held
HandleInput ==
  /\ vpc = "run"
  /\ \E space \in BOOLEAN, tab \in BOOLEAN, shift \in BOOLEAN :
       /\ Len(events) + Len(SentEvents(space, tab)) <= MaxEvents
       /\ tab => n_next + n_prev < MaxPresses
       /\ IF space THEN seed' \in Seeds ELSE seed' = seed
       /\ IF tab /\ shift
          THEN /\ noise_type' = get_prev(noise_type)
               /\ fell_back' = (fell_back \/ TakesDefaultArm(PrevIdx(noise_type)))
               /\ n_prev' = n_prev + 1
               /\ n_next' = n_next
          ELSE IF tab
          THEN /\ noise_type' = get_next(noise_type)
               /\ fell_back' = (fell_back \/ TakesDefaultArm(NextIdx(noise_type)))
               /\ n_next' = n_next + 1
               /\ n_prev' = n_prev
          ELSE UNCHANGED <<noise_type, fell_back, n_next, n_prev>>
       /\ events' = events \o SentEvents(space, tab)
  /\ UNCHANGED <<vpc, first_type, shown, from_idx, from_sel, parseVars, trisVars,
                 flowVars>>

\* update_display: the events are read and cleared, and with one or more of
\* them the image is painted from the selector and the seed
UpdateDisplay ==
  /\ vpc = "run"
  /\ events' = <<>>
  /\ shown' = IF events # <<>>
              THEN [from |-> "noise", noise_type |-> noise_type, seed |-> seed]
              ELSE shown
  /\ UNCHANGED <<vpc, noise_type, first_type, n_next, n_prev, fell_back, seed,
                 from_idx, from_sel, parseVars, trisVars, flowVars>>

\* tests::test_noise_selector_from_idx: NoiseSelector::from(i)
TestFromIdx ==
  /\ vpc = "run"
  /\ \E i \in FromArgs :
       /\ from_idx' = i
       /\ from_sel' = FromIsize(i)
  /\ UNCHANGED <<vpc, noise_type, first_type, n_next, n_prev, fell_back, seed,
                 events, shown, parseVars, trisVars, flowVars>>

ViewerNext == HandleInput \/ UpdateDisplay \/ TestFromIdx

-----------------------------------------------------------------------------
(* Specifications *)

ColorNext == CallParseHexColor

PaletteNext == CallParseHexPalette \/ CallParseHexColor

InitColor == ColorInit /\ TrisIdle /\ FlowIdle /\ ViewIdle

InitPalette == PaletteInit /\ TrisIdle /\ FlowIdle /\ ViewIdle

InitTris == TrisInit /\ ParseIdle /\ FlowIdle /\ ViewIdle

Init ==
  (ProbeInit \/ NoiseFlowInit \/ FeatherweightInit) /\ ParseIdle /\ TrisIdle /\ ViewIdle

InitViewer == ViewerInit /\ ParseIdle /\ TrisIdle /\ FlowIdle

Next == ProbeSample \/ NoiseFlowNext \/ FeatherweightNext

Spec == Init /\ [][Next]_vars

SpecColor == InitColor /\ [][ColorNext]_vars

SpecPalette == InitPalette /\ [][PaletteNext]_vars

SpecTris == InitTris /\ [][TrisNext]_vars

SpecViewer == InitViewer /\ [][ViewerNext]_vars

-----------------------------------------------------------------------------
(* Claims about the palette parser *)

HexChars == {"0", "1", "2", "3", "4", "5", "6", "7", "8", "9",
             "a", "b", "c", "d", "e", "f", "A", "B", "C", "D", "E", "F"}

\* C5: parse_hex_color of a line whose length (str::len, in bytes) is not 6
\* returns WrongColorStringLength naming the line, its length and 6.
C5_WrongLengthNamesLine ==
  (call = "parse_hex_color" /\ Len(text) # 6) =>
    /\ result.tag = "Err"
    /\ result.err = [kind |-> "WrongColorStringLength",
                     input_str |-> text,
                     actual_length |-> Len(text),
                     expected_length |-> 6]

\* A line of seven bytes was refused with its length.
C5_Witness ==
  /\ call = "parse_hex_color"
  /\ Len(text) = 7
  /\ result.tag = "Err"
  /\ result.err.kind = "WrongColorStringLength"
  /\ result.err.actual_length = 7

\* C6: parse_hex_color of a 6-long line that holds a character other than a
\* hexadecimal digit returns Err: no color and no panic.
C6_NonHexLineIsErr ==
  (/\ call = "parse_hex_color"
   /\ Len(text) = 6
   /\ \E k \in 1..Len(text) : text[k] \notin HexChars) =>
    result.tag = "Err"

\* The value of a hexadecimal digit of the palette lines, by the digit
DigitValue(c) == IF c = "0" THEN 0 ELSE 15

PairValue(line, k) == 16 * DigitValue(line[k]) + DigitValue(line[k + 1])

IsHexLine(line) == Len(line) = 6 /\ \A k \in 1..6 : line[k] \in HexChars

ExpectedColors(ls) ==
  [i \in 1..Len(ls) |->
     [red |-> PairValue(ls[i], 1), green |-> PairValue(ls[i], 3),
      blue |-> PairValue(ls[i], 5), alpha |-> 255]]

\* skia_colors.rs 60-66: expected_colors of test_parse_hex_palette
TestPaletteColors ==
  << [red |-> 0, green |-> 0, blue |-> 0, alpha |-> 255],
     [red |-> 255, green |-> 0, blue |-> 0, alpha |-> 255],
     [red |-> 0, green |-> 255, blue |-> 0, alpha |-> 255],
     [red |-> 0, green |-> 0, blue |-> 255, alpha |-> 255],
     [red |-> 255, green |-> 255, blue |-> 255, alpha |-> 255] >>

\* C7: parse_hex_palette of a text whose every line is 6 hex digits returns
\* Ok with one color per line, in line order, each with the channel values
\* of its three digit pairs and alpha 255, whatever the case of the digits;
\* the five-line test palette gives black, red, green, blue, white.
C7_PaletteParsesInOrder ==
  (call = "parse_hex_palette" /\ \A i \in 1..Len(typed) : IsHexLine(typed[i])) =>
    /\ result.tag = "Ok"
    /\ result.val = ExpectedColors(typed)
    /\ typed = TestPaletteLines => result.val = TestPaletteColors

\* The test palette was parsed, and so was a palette in upper case.
C7_Witness ==
  /\ call = "parse_hex_palette"
  /\ typed = TestPaletteLines
  /\ result.tag = "Ok"
  /\ Len(result.val) = 5

\* The first line of ls that is not six hexadecimal digits, or 0
FirstInvalid(ls) ==
  IF \A i \in 1..Len(ls) : IsHexLine(ls[i]) THEN 0
  ELSE CHOOSE i \in 1..Len(ls) :
         ~IsHexLine(ls[i]) /\ \A j \in 1..(i - 1) : IsHexLine(ls[j])

\* C15: parse_hex_palette of a text with an invalid line returns Err, never
\* a list of colors, and the error is the one of the first invalid line: its
\* wrong length with the line itself, or a ParseIntError when its length is 6.
C15_FirstInvalidLineIsErr ==
  (call = "parse_hex_palette" /\ FirstInvalid(Lines(text)) # 0) =>
    LET bad == Lines(text)[FirstInvalid(Lines(text))]
    IN  /\ result.tag = "Err"
        /\ Len(bad) # 6 =>
              result.err = [kind |-> "WrongColorStringLength",
                            input_str |-> bad,
                            actual_length |-> Len(bad),
                            expected_length |-> 6]
        /\ Len(bad) = 6 => result.err.kind = "ParseIntError"

-----------------------------------------------------------------------------
(* Claims about the triangle renderer *)

\* C3: with a palette of one color or more, the index the renderer computes
\* from a height sample in [-1, 1] (1.0 included) lies in 0..len-1: the
\* lookup never leaves the palette.
C3_IndexInRange ==
  (Len(palette) >= 1 /\ index # -1) => index \in 0..(Len(palette) - 1)

\* C4: a palette text of zero lines is rejected when the palette is loaded,
\* as a configuration error, before any drawing: the renderer never reaches
\* a palette lookup that then fails on the empty palette.
C4_EmptyPaletteRejected ==
  (tpc \notin {"off", "load"} /\ Lines(args.palette_text) = <<>>) =>
    /\ tpc = "panic"
    /\ why = "could not load palette"
    /\ ~pixmap
    /\ drawn = <<>>

-----------------------------------------------------------------------------
(* Claims about the flow field, the tails and the walks *)

\* A sample was taken from a field that normalizes
NormalizedSample == prog = "probe" /\ fpc = "sampled" /\ flow_noise.normalize

\* v has magnitude 1, to the resolution of the numbers
IsUnit(v) == Abs(Norm(v) - Q) <= 1

\* v points the way b does, to the resolution of the numbers
SameDirection(v, b) ==
  /\ Abs(v.x * b.y - v.y * b.x) <= Abs(b.x) + Abs(b.y)
  /\ v.x * b.x + v.y * b.y > 0

NormalizedWalkStep ==
  prog = "featherweight" /\ fpc = "walk" /\ step_i > 0 /\ fargs.flow_walk_norm

\* C2: with normalize = true and a zero bias, a sample whose raw vector is
\* zero is the zero vector and a sample whose raw vector is not zero has
\* magnitude 1, never a magnitude between 0 and 1; the same holds of the
\* velocity that featherweight's walk normalizes.
C2_MagnitudeZeroOrOne ==
  ((NormalizedSample /\ flow_noise.bias = Zeros) \/ NormalizedWalkStep) =>
    IF raw = Zeros THEN vel = Zeros ELSE IsUnit(vel)

\* A raw vector of magnitude 0.6 was sampled with a zero bias and came out
\* with magnitude 1.
C2_Witness ==
  /\ NormalizedSample
  /\ flow_noise.bias = Zeros
  /\ raw = Vec(60, 0)
  /\ vel = Vec(Q, 0)

\* A walk is in its loop
Walking ==
  \/ prog = "noise_flow" /\ fpc = "walking"
  \/ prog = "featherweight" /\ fpc = "walk"

CanvasWidth == IF prog = "featherweight" THEN fargs.size ELSE fargs.width

CanvasHeight == IF prog = "featherweight" THEN fargs.size ELSE fargs.height

\* The walk's current point is off the canvas on one of its four sides
OffCanvas ==
  \/ cur.x < 0
  \/ cur.y < 0
  \/ cur.x >= CanvasWidth * Q
  \/ cur.y >= CanvasHeight * Q

\* What the walk has emitted: the path's segments, or the pixels put
Emitted == IF prog = "noise_flow" THEN path ELSE canvas

\* C8: once the current point of a walk is outside the canvas, on any of
\* its four sides, the walk takes no further step and emits nothing more.
C8_WalkStopsOffCanvas ==
  [][(Walking /\ OffCanvas) =>
       (cur' = cur /\ step_i' = step_i /\ Emitted' = Emitted)]_vars

\* The flow vector is zero at every position
ZeroFlow ==
  \/ /\ prog = "noise_flow"
     /\ \A c \in NoiseCells :
          Vec(flow_noise.noise_x[c], flow_noise.noise_y[c]) = VSub(Zeros, flow_noise.bias)
  \/ /\ prog = "featherweight"
     /\ \A c \in NoiseCells : flow_x[c] = 0 /\ flow_y[c] = 0

\* The walks of this run cannot advance
StillWalks ==
  /\ prog \in {"noise_flow", "featherweight"}
  /\ fpc # "main"
  /\ fwhy # "unwrap on None, at Pixmap::new"
  /\ fargs.draw_flow_walks
  /\ ZeroFlow \/ (prog = "noise_flow" /\ fargs.flow_walk_step_size = 0)

WalksDrawn == {i \in 1..Len(canvas) : canvas[i].kind = "walk"}

\* C9: a walk with a step size of 0, or in a flow that is zero everywhere,
\* never leaves its start point, and ends without an error after exactly n
\* steps, each at the start point.
C9_StillWalkEndsAfterNSteps ==
  StillWalks =>
    /\ Walking => cur = start
    /\ fpc = "panic" => fwhy # "unwrap on None, at draw_walk"
    /\ prog = "noise_flow" =>
         \A i \in WalksDrawn :
           /\ Len(canvas[i].segments) = fargs.flow_walk_steps
           /\ \A j \in 1..Len(canvas[i].segments) :
                canvas[i].segments[j] = <<canvas[i].from, canvas[i].from, canvas[i].from>>
    /\ (prog = "featherweight" /\ fpc \in {"walks", "saved"}) =>
         Cardinality(WalksDrawn) = wn * fargs.flow_walk_length

\* draw_tail has just run
TailInHand ==
  /\ prog = "noise_flow"
  /\ start # NoVec
  /\ \/ fpc = "tails"
     \/ fpc = "panic" /\ fwhy # "unwrap on None, at draw_walk"

\* C10: a tail whose sampled direction is the zero vector is drawn as the
\* path [start, start]: no assertion fails and the program does not abort.
C10_ZeroTailIsDrawn ==
  (TailInHand /\ vel = Zeros) =>
    /\ fpc # "panic"
    /\ canvas # <<>>
    /\ canvas[Len(canvas)] =
         [kind |-> "tail", from |-> start, segments |-> << <<start>> >>]

\* A tail was drawn where the flow is zero.
C10_Witness ==
  /\ TailInHand
  /\ fpc = "tails"
  /\ vel = Zeros
  /\ cur = start

-----------------------------------------------------------------------------
(* Claims about the triangle grid *)

\* Twice the signed area of the triangle a, b, p
Cross(a, b, p) == (b.x - a.x) * (p.y - a.y) - (b.y - a.y) * (p.x - a.x)

\* p lies in the closed triangle pts
InTriangle(p, pts) ==
  LET d1 == Cross(pts[1], pts[2], p)
      d2 == Cross(pts[2], pts[3], p)
      d3 == Cross(pts[3], pts[1], p)
  IN  ~((d1 < 0 \/ d2 < 0 \/ d3 < 0) /\ (d1 > 0 \/ d2 > 0 \/ d3 > 0))

\* The points of the rectangle [0, W] x [0, H] on a lattice of a quarter of
\* a pixel, its four edges included
CanvasPoints(a) ==
  {Point(x * (Q \div 4), y * (Q \div 4)) : x \in 0..(4 * a.width), y \in 0..(4 * a.height)}

\* C11: after the grid walk over i in [0, i_max) and j in [0, j_max), for a
\* canvas of width and height 1 or more, every point of the rectangle
\* [0, W] x [0, H] lies in at least one of the triangles drawn: no gaps, the
\* left and top edges and the shifted rows included.
C11_GridCoversCanvas ==
  tpc = "saved" =>
    \A p \in CanvasPoints(args) :
      \E n \in 1..Len(drawn) : InTriangle(p, drawn[n].points)

\* The walk over the largest canvas is done: all 2 * i_max * j_max triangles
\* are drawn, rows of both parities among them.
C11_Witness ==
  /\ tpc = "saved"
  /\ args.width = 2
  /\ args.height = 2
  /\ args.triangle_size = 2 * Q
  /\ Len(drawn) = 2 * i_max(args) * j_max(args)
  /\ j_max(args) >= 2

Sign(x) == IF x > 0 THEN 1 ELSE IF x < 0 THEN -1 ELSE 0

\* Some edge of the triangle t has the triangle u on its outer side
EdgeSeparates(t, u) ==
  \E e \in 1..3 :
    LET a == t[e]
        b == t[(e % 3) + 1]
        c == t[((e + 1) % 3) + 1]
        side == Cross(a, b, c)
    IN  \A v \in 1..3 : Sign(Cross(a, b, u[v])) * Sign(side) <= 0

\* Two triangles share no interior area
InteriorsDisjoint(t, u) == EdgeSeparates(t, u) \/ EdgeSeparates(u, t)

\* C12: no two distinct triangles of the grid walk share interior area: each
\* triangle drawn meets every triangle drawn before it (the other triangle
\* of its anchor, its neighbours in the row, the rows above) only along
\* edges or at vertices.
C12_TrianglesDoNotOverlap ==
  \A m \in {Len(drawn) - 1, Len(drawn)} \cap (1..Len(drawn)) :
    \A n \in 1..(m - 1) :
      InteriorsDisjoint(drawn[m].points, drawn[n].points)

\* Two rows and two columns of cells are drawn, top and bottom triangles.
C12_Witness ==
  /\ tpc = "draw"
  /\ tj >= 1
  /\ ti >= 1
  /\ Len(drawn) >= 8

-----------------------------------------------------------------------------
(* Claims about NoiseSelector and the viewer *)

\* C13: NoiseSelector::from(i) converted back to its discriminant is i for
\* every i in 0..NOISE_SELECTORS_LEN-1, so the three selectors are distinct
\* and NOISE_SELECTORS_LEN is the number of variants; for every other index,
\* the negative ones included, from returns the default selector, Perlin.
C13_FromRoundTrip ==
  /\ Len(NoiseSelectors) = NOISE_SELECTORS_LEN
  /\ Cardinality({FromIsize(i) : i \in 0..(NOISE_SELECTORS_LEN - 1)}) = NOISE_SELECTORS_LEN
  /\ from_sel # NoSelector =>
       IF from_idx \in 0..(NOISE_SELECTORS_LEN - 1)
       THEN AsIsize(from_sel) = from_idx
       ELSE from_sel = "Perlin"

\* The last index of the range was converted and came back as FbmPerlin.
C13_Witness ==
  /\ from_idx = NOISE_SELECTORS_LEN - 1
  /\ from_sel = "FbmPerlin"

\* The selector n places after sel, cyclically
Shifted(sel, n) == NoiseSelectors[((AsIsize(sel) + n) % Len(NoiseSelectors)) + 1]

\* C19: get_next and get_prev are inverses of each other on every selector,
\* three applications of get_next return to the start after visiting all
\* three selectors, and after any sequence of Tab and Shift+Tab presses the
\* viewer's noise type is the first one shifted by the number of Tab presses
\* minus the number of Shift+Tab presses, modulo 3, with no conversion
\* having taken the out-of-range default.
C19_SelectorCycles ==
  /\ \A sel \in NoiseSelector :
       /\ get_prev(get_next(sel)) = sel
       /\ get_next(get_prev(sel)) = sel
       /\ get_next(get_next(get_next(sel))) = sel
       /\ {sel, get_next(sel), get_next(get_next(sel))} = NoiseSelector
  /\ vpc = "run" =>
       /\ noise_type = Shifted(first_type, n_next + (Len(NoiseSelectors) - 1) * n_prev)
       /\ ~fell_back

\* Two Tab presses and one Shift+Tab press took the viewer from FbmPerlin
\* around the end of the cycle to Simplex.
C19_Witness ==
  /\ vpc = "run"
  /\ n_next = 2
  /\ n_prev = 1
  /\ first_type = "FbmPerlin"
  /\ noise_type = "Simplex"

-----------------------------------------------------------------------------
(* Claims about sampling, the tails' assertions and featherweight's pixels *)

\* The flow field of this run is built
FieldBuilt ==
  \/ prog = "probe"
  \/ prog = "noise_flow" /\ fpc # "main" /\ fwhy # "unwrap on None, at Pixmap::new"

\* Every sample of one position gave one value
SamplesAgree == \A a \in memo : \A b \in memo : a[1] = b[1] => a[2] = b[2]

\* The generators of the field are those of the seed given with --seed
GeneratorsFollowSeed ==
  (prog = "noise_flow" /\ FieldBuilt /\ fargs.seed.some) =>
    /\ flow_noise.noise_x = SimplexNew(SimplexValsX, RngGen(fargs.seed.val, 1))
    /\ flow_noise.noise_y = SimplexNew(SimplexValsY, RngGen(fargs.seed.val, 2))

C16_TailAssertionsHold ==
  /\ prog = "noise_flow" => fwhy \notin
       {"assertion failed: pos != Vector2::zeros()",
        "assertion failed: dst != Vector2::zeros()",
        "assertion failed: (pos - dst).norm() - tail_len <= 0.001"}
  /\ TailInHand =>
       /\ start # Zeros
       /\ cur # Zeros
       /\ (Norm(VSub(start, cur)) - TailLen * Q) * 1000 <= Q

\* Two tails are drawn, the second along (0.6, 0.8).
C16_Witness ==
  /\ TailInHand
  /\ fpc = "tails"
  /\ vel = Vec(60, 80)
  /\ Len(canvas) = 2

\* C17: every put_pixel of featherweight's tails and walks is given
\* coordinates inside the image, 0 <= x < size and 0 <= y < size, also for
\* points that have moved up past y = 0 or left past x = 0: nothing is
\* written outside the image buffer.
C17_PixelsInsideImage ==
  prog = "featherweight" =>
    /\ fwhy # "Image index out of bounds"
    /\ \A n \in 1..Len(canvas) :
         /\ 0 <= canvas[n].x /\ canvas[n].x < fargs.size
         /\ 0 <= canvas[n].y /\ canvas[n].y < fargs.size

\* A walk went up past y = 0 and a pixel was put from there, in row 0.
C17_Witness ==
  /\ prog = "featherweight"
  /\ fpc = "walk"
  /\ step_i = 2
  /\ start.y = 0
  /\ vel.y < 0
  /\ Len(canvas) = 2
  /\ canvas[2].y = 0

-----------------------------------------------------------------------------
(* The claim about the walks' colors *)

\* A walk of noise_flow has had its color looked up
ColorChosen == prog = "noise_flow" /\ color_i # -1

=============================================================================
